---------------------------- MODULE Spec2Model ----------------------------
(***************************************************************************)
(* Prime-field arithmetic (crates/encriptions/src/field.rs), the curve     *)
(* membership predicate (curve.rs) and the group addition of points on a   *)
(* short Weierstrass curve (point.rs).                                     *)
(*                                                                         *)
(* The library is pure: every operation takes values and returns a fresh   *)
(* value.  The state machine below holds the operands of one call, the     *)
(* name of the operation that was applied and what it returned.  The       *)
(* initial states draw the operands from the values the constructors       *)
(* accept; a returned value may be fed back as an operand.                 *)
(***************************************************************************)
EXTENDS Integers, FiniteSets

VARIABLES
    prime,      \* P::get_prime() of the field both operands live in
    curve,      \* the curve tag C of PointOnCurve<T, C>
    x,          \* left field operand  (LimitedFieldElement.0)
    y,          \* right field operand (LimitedFieldElement.0)
    exponent,   \* the signed BigInt handed to pow
    P,          \* left point operand  (GeneralPoint)
    Q,          \* right point operand (GeneralPoint)
    R,          \* third point operand (GeneralPoint)
    op,         \* "init" before a call, then the operation that was called
    result      \* what the call returned

vars == <<prime, curve, x, y, exponent, P, Q, R, op, result>>

---------------------------------------------------------------------------
(* Bounds of the model *)

\* |exponent| <= MaxExp; 224 > 223 - 1 so that one full cycle of the
\* exponent group of the largest field is covered on both sides of zero.
MaxExp == 224

\* Associativity is enumerated over triples of points; fields with a prime
\* above this are left out of that enumeration only.
MaxAssocPrime == 29

---------------------------------------------------------------------------
(* field.rs *)

\* def_prime_struct!(Prime13, 13) ... (Prime223, 223)
Primes == {13, 19, 29, 223}

None == [tag |-> "None"]
Some(v) == [tag |-> "Some", v |-> v]

\* BigUint::modpow of num-bigint, as used by pow: base^e mod m by
\* square-and-multiply on the bits of e.
RECURSIVE modpow(_, _, _)
modpow(base, e, m) ==
    IF e = 0 THEN 1 % m
    ELSE LET h == modpow(base, e \div 2, m)
         IN  IF e % 2 = 0 THEN (h * h) % m ELSE (((h * h) % m) * base) % m

Abs(a) == IF a < 0 THEN 0 - a ELSE a

\* The reduction with the final .rem(b) dropped: b - (|a| mod b).
rem_euclid_NoFinalRem(a, b) ==
    IF a < 0
    THEN LET la == Abs(a)
             q  == la \div b
             m  == b * (q + 1)
         IN  m - Abs(a)
    ELSE Abs(a) % b

rem_euclid(a, b) ==
    IF a < 0
    THEN LET la == Abs(a)
             q  == la \div b
             m  == b * (q + 1)
         IN  (m - Abs(a)) % b
    ELSE Abs(a) % b

LimitedFieldElement_new(value, p) ==
    IF value >= p THEN None ELSE Some(value)

\* impl From<i64>: Self::new(rem_euclid(v, p)).unwrap()
Field_from(v, p) == LimitedFieldElement_new(rem_euclid(v, p), p).v

Field_add(a, b, p) == (a + b) % p

\* Negation that forgets the reduction: p - v, which is p for v = 0.
Field_neg_Unreduced(a, p) == p - a

Field_neg(a, p) == rem_euclid(0 - a, p)

Field_sub(a, b, p) == (a + Field_neg(b, p)) % p

Field_mul(a, b, p) == (a * b) % p

Field_pow(a, e, p) ==
    LET ex == rem_euclid(e, p - 1)
    IN  modpow(a, ex, p)

\* Inversion with the exponent off by one: p - 1 instead of p - 2.
Field_div_WrongExponent(a, b, p) == Field_mul(a, Field_pow(b, p - 1, p), p)

Field_div(a, b, p) == Field_mul(a, Field_pow(b, p - 2, p), p)

\* The values LimitedFieldElement::new accepts.
FieldElements(p) == {v \in 0..p : LimitedFieldElement_new(v, p) # None}

---------------------------------------------------------------------------
(* point.rs: GeneralPoint *)

Infinite == [tag |-> "Infinite"]
Finite(px, py) == [tag |-> "Finite", x |-> px, y |-> py]

Point_x(pt) == IF pt.tag = "Finite" THEN Some(pt.x) ELSE None
Point_y(pt) == IF pt.tag = "Finite" THEN Some(pt.y) ELSE None
is_finite(pt) == Point_x(pt) # None /\ Point_y(pt) # None

---------------------------------------------------------------------------
(* curve.rs *)

Curves == {"Secp256k1", "TestEllipticCurve"}

EllipticCurve_a(c, p) ==
    IF c = "Secp256k1" THEN Field_from(0, p) ELSE Field_from(5, p)

EllipticCurve_b(c, p) ==
    IF c = "Secp256k1" THEN Field_from(7, p) ELSE Field_from(7, p)

\* Membership with the a * x term left out.
EllipticCurve_on_NoLinearTerm(pt, c, p) ==
    IF is_finite(pt)
    THEN Field_pow(Point_y(pt).v, 2, p)
           = Field_add(Field_pow(Point_x(pt).v, 3, p), EllipticCurve_b(c, p), p)
    ELSE TRUE

EllipticCurve_on(pt, c, p) ==
    IF is_finite(pt)
    THEN Field_pow(Point_y(pt).v, 2, p)
           = Field_add(
                 Field_add(Field_pow(Point_x(pt).v, 3, p),
                           Field_mul(EllipticCurve_a(c, p), Point_x(pt).v, p), p),
                 EllipticCurve_b(c, p), p)
    ELSE TRUE

---------------------------------------------------------------------------
(* point.rs: PointOnCurve *)

\* C::on(&point).then(|| Self(point, PhantomData))
PointOnCurve_new(pt, c, p) ==
    IF EllipticCurve_on(pt, c, p) THEN Some(pt) ELSE None

\* A call either returns a value or panics (Option::unwrap on None).
Ok(v) == [tag |-> "Ok", v |-> v]
Panic == [tag |-> "Panic"]
unwrap(o) == IF o.tag = "Some" THEN Ok(o.v) ELSE Panic

\* The chord/tangent formulas shared by the two finite branches of add.
AddWithSlope(s, x1, y1, x2, c, p) ==
    LET x3 == Field_sub(Field_sub(Field_pow(s, 2, p), x1, p), x2, p)
        y3 == Field_sub(Field_mul(s, Field_sub(x1, x3, p), p), y1, p)
    IN  unwrap(PointOnCurve_new(Finite(x3, y3), c, p))

\* add with the second match arm returning the wrong operand.
PointOnCurve_add_WrongArm(l, r, c, p) ==
    IF l.tag = "Infinite" THEN Ok(r)
    ELSE IF r.tag = "Infinite" THEN Ok(r)
    ELSE IF l.x = r.x
         THEN IF l.y # r.y
              THEN unwrap(PointOnCurve_new(Infinite, c, p))
              ELSE LET s == Field_div(
                                Field_add(
                                    Field_mul(Field_pow(l.x, 2, p), Field_from(3, p), p),
                                    EllipticCurve_a(c, p), p),
                                Field_mul(l.y, Field_from(2, p), p), p)
                   IN  AddWithSlope(s, l.x, l.y, r.x, c, p)
         ELSE LET s == Field_div(Field_sub(r.y, l.y, p), Field_sub(r.x, l.x, p), p)
              IN  AddWithSlope(s, l.x, l.y, r.x, c, p)

PointOnCurve_add(l, r, c, p) ==
    IF l.tag = "Infinite" THEN Ok(r)
    ELSE IF r.tag = "Infinite" THEN Ok(l)
    ELSE IF l.x = r.x
         THEN IF l.y # r.y
              THEN unwrap(PointOnCurve_new(Infinite, c, p))
              ELSE LET s == Field_div(
                                Field_add(
                                    Field_mul(Field_pow(l.x, 2, p), Field_from(3, p), p),
                                    EllipticCurve_a(c, p), p),
                                Field_mul(l.y, Field_from(2, p), p), p)
                   IN  AddWithSlope(s, l.x, l.y, r.x, c, p)
         ELSE LET s == Field_div(Field_sub(r.y, l.y, p), Field_sub(r.x, l.x, p), p)
              IN  AddWithSlope(s, l.x, l.y, r.x, c, p)

\* (l + r) where l is itself the outcome of a call: a panic propagates.
AddTo(lo, ro, c, p) ==
    IF lo.tag = "Panic" \/ ro.tag = "Panic" THEN Panic
    ELSE PointOnCurve_add(lo.v, ro.v, c, p)

\* Every GeneralPoint over F_p, and those PointOnCurve::new accepts.
Coordinates(p) ==
    {Infinite} \cup {Finite(px, py) : px \in FieldElements(p), py \in FieldElements(p)}

CurvePoints(c, p) == {pt \in Coordinates(p) : PointOnCurve_new(pt, c, p) # None}

\* The constructed points of each curve over each field, enumerated once.
PointsOf == [c \in Curves |-> [p \in Primes |-> CurvePoints(c, p)]]

---------------------------------------------------------------------------
(* The calls *)

Pending == [tag |-> "Pending"]
Elem(v) == [tag |-> "Elem", v |-> v]

Call(name, value) ==
    /\ op = "init"
    /\ op' = name
    /\ result' = value
    /\ UNCHANGED <<prime, curve, x, y, exponent, P, Q, R>>

DoAdd == Call("add", Elem(Field_add(x, y, prime)))
DoSub == Call("sub", Elem(Field_sub(x, y, prime)))
DoMul == Call("mul", Elem(Field_mul(x, y, prime)))
DoNeg == Call("neg", Elem(Field_neg(x, prime)))
DoDiv == Call("div", Elem(Field_div(x, y, prime)))
DoPow == Call("pow", Elem(Field_pow(x, exponent, prime)))

DoNew == Call("new", PointOnCurve_new(P, curve, prime))
DoPointAdd == Call("padd", PointOnCurve_add(P, Q, curve, prime))
DoAssoc ==
    Call("assoc",
         [tag |-> "Assoc",
          lhs |-> AddTo(PointOnCurve_add(P, Q, curve, prime), Ok(R), curve, prime),
          rhs |-> AddTo(Ok(P), PointOnCurve_add(Q, R, curve, prime), curve, prime)])

\* The caller keeps the returned element as the next left operand.
ReuseElem ==
    /\ op # "init"
    /\ result.tag = "Elem"
    /\ x' = result.v
    /\ op' = "init"
    /\ result' = Pending
    /\ UNCHANGED <<prime, curve, y, exponent, P, Q, R>>

\* The caller keeps the returned point as the next left operand.
ReusePoint ==
    /\ op = "padd"
    /\ result.tag = "Ok"
    /\ P' = result.v
    /\ op' = "init"
    /\ result' = Pending
    /\ UNCHANGED <<prime, curve, x, y, exponent, Q, R>>

---------------------------------------------------------------------------
(* Specifications *)

\* Ring operations and division on every pair of elements of every field.
Init ==
    /\ prime \in Primes
    /\ curve = "Secp256k1"
    /\ x \in FieldElements(prime)
    /\ y \in FieldElements(prime)
    /\ exponent = 0
    /\ P = Infinite /\ Q = Infinite /\ R = Infinite
    /\ op = "init"
    /\ result = Pending

Next == DoAdd \/ DoSub \/ DoMul \/ DoNeg \/ DoDiv \/ ReuseElem

Spec == Init /\ [][Next]_vars

\* pow on every element with every exponent in -MaxExp .. MaxExp.
InitPow ==
    /\ prime \in Primes
    /\ curve = "Secp256k1"
    /\ x \in FieldElements(prime)
    /\ y = 0
    /\ exponent \in (0 - MaxExp)..MaxExp
    /\ P = Infinite /\ Q = Infinite /\ R = Infinite
    /\ op = "init"
    /\ result = Pending

NextPow == DoPow \/ ReuseElem

SpecPow == InitPow /\ [][NextPow]_vars

\* PointOnCurve::new on every coordinate pair of every field, both curves.
InitNew ==
    /\ prime \in Primes
    /\ curve \in Curves
    /\ x = 0 /\ y = 0 /\ exponent = 0
    /\ P \in Coordinates(prime)
    /\ Q = Infinite /\ R = Infinite
    /\ op = "init"
    /\ result = Pending

NextNew == DoNew

SpecNew == InitNew /\ [][NextNew]_vars

\* add on every pair of constructed points of every field, both curves.
InitAdd ==
    /\ prime \in Primes
    /\ curve \in Curves
    /\ x = 0 /\ y = 0 /\ exponent = 0
    /\ P \in PointsOf[curve][prime]
    /\ Q \in PointsOf[curve][prime]
    /\ R = Infinite
    /\ op = "init"
    /\ result = Pending

NextAdd == DoPointAdd \/ ReusePoint

SpecAdd == InitAdd /\ [][NextAdd]_vars

\* (P + Q) + R and P + (Q + R) on every triple of constructed points.
InitAssoc ==
    /\ prime \in {q \in Primes : q <= MaxAssocPrime}
    /\ curve \in Curves
    /\ x = 0 /\ y = 0 /\ exponent = 0
    /\ P \in PointsOf[curve][prime]
    /\ Q \in PointsOf[curve][prime]
    /\ R \in PointsOf[curve][prime]
    /\ op = "init"
    /\ result = Pending

NextAssoc == DoAssoc

SpecAssoc == InitAssoc /\ [][NextAssoc]_vars

---------------------------------------------------------------------------
(* Properties *)

\* The e-fold product of a with itself modulo p (a^0 = 1): the reference
\* against which pow and div are compared.  The e factors are multiplied
\* as a balanced tree, floor(e/2) of them times the other ceil(e/2).
RECURSIVE NaivePow(_, _, _)
NaivePow(a, e, p) ==
    IF e = 0 THEN 1 % p
    ELSE IF e = 1 THEN a % p
    ELSE (NaivePow(a, e \div 2, p) * NaivePow(a, e - (e \div 2), p)) % p

IsFinite(pt) == pt.tag = "Finite"

\* C1: closure of point addition -- for every pair of constructed points
\* of the same curve, P + Q completes and returns a point satisfying on().
C1_AddClosed ==
    op = "padd" =>
        /\ result.tag = "Ok"
        /\ EllipticCurve_on(result.v, curve, prime)

\* C2: additive inverses -- for every affine P = (x, y) on the curve,
\* P + (x, -y) is the point at infinity, also when y = 0 and (x, -y) = P.
C2_AddInverseIsInfinity ==
    (op = "padd" /\ IsFinite(P) /\ Q = Finite(P.x, Field_neg(P.y, prime)))
        => result = Ok(Infinite)

\* C3: associativity -- (P + Q) + R and P + (Q + R) both complete and are
\* equal, for all constructed points P, Q, R of the same curve.
C3_AddAssociative ==
    op = "assoc" =>
        /\ result.lhs.tag = "Ok"
        /\ result.rhs.tag = "Ok"
        /\ result.lhs = result.rhs

\* C4: commutativity -- P + Q and Q + P have the same outcome for all
\* constructed points P, Q of the same curve, and when the x coordinates
\* differ that outcome is a point (the chord formulas with the operands
\* swapped give the same x3, y3).
C4_AddCommutative ==
    op = "padd" =>
        /\ result = PointOnCurve_add(Q, P, curve, prime)
        /\ (IsFinite(P) /\ IsFinite(Q) /\ P.x # Q.x)
               => (result.tag = "Ok" /\ IsFinite(result.v))

\* C4 witness: the chord case 170,142 + 60,139 = 220,181 over F_223.
C4_Witness ==
    /\ op = "padd" /\ prime = 223 /\ curve = "Secp256k1"
    /\ P = Finite(170, 142) /\ Q = Finite(60, 139)
    /\ result = Ok(Finite(220, 181))

\* C5: division by zero is reported -- x / 0 fails with DivisionByZero and
\* never returns a field element.
C5_DivByZeroReported ==
    (op = "div" /\ y = 0) => result.tag = "DivisionByZero"

\* C6: PointOnCurve::new(coord) returns Some(coord) exactly when coord is
\* the point at infinity or an affine pair with y^2 = x^3 + a x + b in F_p,
\* and None for every other affine pair.
C6_NewIffOnCurve ==
    op = "new" =>
        LET a == EllipticCurve_a(curve, prime)
            b == EllipticCurve_b(curve, prime)
            member == \/ P.tag = "Infinite"
                      \/ (P.y * P.y) % prime
                           = (P.x * P.x * P.x + a * P.x + b) % prime
        IN  /\ result.tag \in {"Some", "None"}
            /\ (result.tag = "Some") <=> member
            /\ (result.tag = "Some") => result.v = P

\* C6 witness: 192,105 is accepted on y^2 = x^3 + 7 over F_223.
C6_Witness ==
    /\ op = "new" /\ prime = 223 /\ curve = "Secp256k1"
    /\ P = Finite(192, 105)
    /\ result = Some(Finite(192, 105))

\* C7: division inverts multiplication -- for every x and nonzero y,
\* x / y = x * y^(p-2), (x / y) * y = x, and y * y^(p-2) = 1.
C7_DivInvertsMul ==
    (op = "div" /\ y # 0) =>
        /\ result.v = (x * NaivePow(y, prime - 2, prime)) % prime
        /\ Field_mul(result.v, y, prime) = x
        /\ Field_mul(y, Field_pow(y, prime - 2, prime), prime) = 1

\* C7 witness: 2 / 7 = 3 in F_19.
C7_Witness ==
    op = "div" /\ prime = 19 /\ x = 2 /\ y = 7 /\ result.v = 3

\* C8: exponent reduction -- for nonzero a and any signed e, a.pow(e) is
\* a.pow(e mod (p-1)) and the true power a^(e mod (p-1)); a^e * a^(-e) = 1;
\* and rem_euclid(e, p-1) lies in [0, p-1) and is congruent to e, also for
\* negative multiples of p-1.
C8_ExponentReduction ==
    (op = "pow" /\ x # 0) =>
        LET m == prime - 1
            r == rem_euclid(exponent, m)
        IN  /\ r \in 0..(m - 1)
            /\ (r - exponent) % m = 0
            /\ result.v = Field_pow(x, exponent % m, prime)
            /\ result.v = NaivePow(x, exponent % m, prime)
            /\ Field_mul(result.v, Field_pow(x, 0 - exponent, prime), prime) = 1

\* C8 witness: a negative multiple of p - 1, 2^(-222) = 1 in F_223.
C8_Witness ==
    op = "pow" /\ prime = 223 /\ x = 2 /\ exponent = 0 - 222 /\ result.v = 1

\* C9: add, sub, mul and neg return the Euclidean remainder modulo p of the
\* integer result, and every returned value v satisfies 0 <= v < p.
C9_RingOpsCanonical ==
    /\ op = "add" => result.v = (x + y) % prime
    /\ op = "sub" => result.v = (x - y) % prime
    /\ op = "mul" => result.v = (x * y) % prime
    /\ op = "neg" => result.v = (0 - x) % prime
    /\ op \in {"add", "sub", "mul", "neg"} => result.v \in 0..(prime - 1)

\* C9 witness: a subtraction that wraps, 1 - 2 = 28 in F_29.
C9_Witness ==
    op = "sub" /\ prime = 29 /\ x = 1 /\ y = 2 /\ result.v = 28

\* C10: for every element x, 0 included, and every e >= 0, x.pow(e) is the
\* e-fold product of x modulo p; in particular 0.pow(e) = 0 for e > 0.
C10_PowIsTruePower ==
    (op = "pow" /\ exponent >= 0) => result.v = NaivePow(x, exponent, prime)

===========================================================================
